---- MODULE Spec2Model ----
(***************************************************************************)
(* Build and watch control flow of the riot command line compiler          *)
(* (src/lib/index.js): methods.make, methods.watch and the cli dispatch.   *)
(*                                                                         *)
(* JavaScript runs every call to completion: nothing of this program runs  *)
(* between two steps of one call of make.  A call of make is modelled as   *)
(* the frame (pc, idx, from, to, ...) and one action per iteration of its  *)
(* loops, so that what is on disk in the middle of a pass can be stated;   *)
(* the only actions that can interleave with a pass are those of the       *)
(* environment (FsChange: another process changes a source file).          *)
(* Handlers of the watcher (Ready, Deliver) run only on an empty stack.    *)
(***************************************************************************)
EXTENDS Naturals, Sequences, FiniteSets

\* Number of source file changes the environment makes in one behaviour.
MaxChanges == 3

----------------------------------------------------------------------------
(* Texts are sequences of tokens; paths are records.                       *)

NoFile == <<"ENOENT">>          \* the content of a path that does not exist
BOM    == "uFEFF"
NL     == "\n"

\* The contents a source file can have: with a byte order mark, without,
\* and one the compiler rejects.
SrcTexts == { <<BOM, "a">>, <<"b">>, <<"!">> }

Cwd     == <<"cwd">>
FromDir == Cwd \o <<"src">>
ToDir   == Cwd \o <<"dst">>
PathA   == [dir |-> FromDir,                name |-> "a", ext |-> "tag"]
PathB   == [dir |-> FromDir \o <<"sub">>,   name |-> "b", ext |-> "tag"]
PathC   == [dir |-> FromDir,                name |-> "c", ext |-> "txt"]
ToFile  == [dir |-> ToDir,                  name |-> "all", ext |-> "js"]

InPaths == {PathA, PathB, PathC}
\* The order in which the tree is enumerated.
TreeOrder == <<PathA, PathC, PathB>>

Range(s) == {s[i] : i \in DOMAIN s}

IsPrefix(p, s) == Len(p) <= Len(s) /\ SubSeq(s, 1, Len(p)) = p

Flows == {<<"f", "f">>, <<"f", "d">>, <<"d", "f">>, <<"d", "d">>}

VARIABLES
  opt,        \* the options hash: flow, compiler.modular, compiler.silent
  method,     \* the method cli() dispatches to: "make" or "watch"
  proc,       \* "start", "running", "exited" or "crashed"
  disk,       \* source tree: path -> text or NoFile
  outfs,      \* destination tree: path -> text or NoFile
  dirs,       \* directories created by mkdir -p
  pc,         \* position in make: "idle", "process" or "report"
  caller,     \* who called make: "cli", "watch" or "event"
  active,     \* number of calls of make that have begun and not ended
  from,       \* make's local from (of the most recent call)
  to,         \* make's local to (of the most recent call)
  prevFrom,   \* from of the call before the most recent one
  idx,        \* index of the next input in from.map
  reads,      \* texts sh.cat returned in this pass, in order
  written,    \* paths written in this pass, in order
  logged,     \* lines logged by this pass, in order
  outBefore,  \* outfs when this pass began
  outcome,    \* of the most recent pass: "none", "ok" or "threw"
  err,        \* the error the most recent pass threw, or NoErr
  watcher,    \* "none" or "subscribed"
  ready,      \* the 'ready' handler has logged "Watching ..."
  queue,      \* change events emitted by the watcher, not yet handled
  passes,     \* calls of make begun
  delivered,  \* 'all' events handled
  changes     \* changes the environment has made

vars == <<opt, method, proc, disk, outfs, dirs, pc, caller, active, from, to,
          prevFrom, idx, reads, written, logged, outBefore, outcome, err,
          watcher, ready, queue, passes, delivered, changes>>

NoErr == <<>>

----------------------------------------------------------------------------
(* Helpers and collaborators that index.js uses and does not define.       *)

\* compiler.compile(text, opt.compiler): throws on a malformed text.
CompileThrows(text) == "!" \in Range(text)
CompileError(text)  == <<"CompileError">> \o text
Compile(text)       == <<"riot.tag2(">> \o text \o <<")">>

\* find(dir): the files under dir with the source extension, as enumerated.
Exists(p) == disk[p] # NoFile
Matches(dir, p) == Exists(p) /\ p.ext = "tag" /\ IsPrefix(dir, p.dir)
Find(dir) == SelectSeq(TreeOrder, LAMBDA p : Matches(dir, p))

\* remap(from, to, base): each input, moved from base to the directory to,
\* with the output extension.
RemapOne(p, dest, base) ==
  [dir |-> dest \o SubSeq(p.dir, Len(base) + 1, Len(p.dir)),
   name |-> p.name, ext |-> "js"]
Remap(inputs, dest, base) == [i \in DOMAIN inputs |-> RemapOne(inputs[i], dest, base)]

\* toRelative(path): the path relative to the working directory.
ToRelative(p) ==
  [dir |-> SubSeq(p.dir, Len(Cwd) + 1, Len(p.dir)), name |-> p.name, ext |-> p.ext]

OutPaths == {RemapOne(p, ToDir, FromDir) : p \in InPaths} \cup {ToFile}

----------------------------------------------------------------------------
(* The options of one run.                                                 *)

SourceIsFile == opt.flow[1] = "f"
DestIsFile   == opt.flow[2] = "f"

OptFrom == IF SourceIsFile THEN PathA ELSE FromDir
OptTo   == IF DestIsFile THEN ToFile ELSE ToDir

\* The files the watch glob covers.
GlobFiles == IF SourceIsFile THEN {PathA} ELSE {PathA, PathB}

----------------------------------------------------------------------------
(* make: the pure parts.                                                   *)

\* encapsulate(from): the loader shim around the text when --modular.
ShimHead == <<"(function(tagger) {", NL, "  ...define/module.exports/window.riot...", NL,
              "})(function(riot, require, exports, module) {", NL>>
ShimTail == <<NL, "});">>
Encapsulate(text) ==
  IF ~opt.modular THEN text ELSE ShimHead \o text \o ShimTail

\* .replace(/^BOM/g, ''): drops a byte order mark at the start of the text.
StripBOM(text) ==
  IF Len(text) > 0 /\ Head(text) = BOM THEN Tail(text) ELSE text

\* Array.prototype.join('\n').
RECURSIVE Join(_)
Join(texts) ==
  IF Len(texts) = 0 THEN <<>>
  ELSE IF Len(texts) = 1 THEN texts[1]
  ELSE texts[1] \o <<NL>> \o Join(Tail(texts))

\* sh.cat(path): the text of the file; null when there is none, on which
\* .replace throws a TypeError.
Cat(p) == disk[p]
ReadThrows(p) == Cat(p) = NoFile
TypeError == <<"TypeError">>

\* parse(path): what it throws, and what it returns otherwise.
ParseThrows(p) == ReadThrows(p) \/ CompileThrows(StripBOM(Cat(p)))
ParseError(p)  == IF ReadThrows(p) THEN TypeError ELSE CompileError(StripBOM(Cat(p)))
Parse(p)       == Compile(StripBOM(Cat(p)))

\* The compiled text of a text that was read.
Compiled(text) == Compile(StripBOM(text))

\* A make that keeps the list of inputs of its first call.
ResolveFromCached ==
  IF passes > 0 THEN from
  ELSE IF SourceIsFile THEN <<OptFrom>> ELSE Find(OptFrom)

\* The locals from, base and to of make.
ResolveFrom == IF SourceIsFile THEN <<OptFrom>> ELSE Find(OptFrom)
ResolveBase == IF SourceIsFile THEN OptFrom.dir ELSE OptFrom
ResolveTo(inputs) ==
  IF DestIsFile THEN <<OptTo>> ELSE Remap(inputs, OptTo, ResolveBase)

\* sh.mkdir('-p', Object.keys(dirs)): the directory of every output path.
MkDirs(outputs) == dirs \cup {outputs[i].dir : i \in DOMAIN outputs}

\* A report that pairs every input with to[0].
ReportLineFirst(i) ==
  [src |-> ToRelative(from[i]), dst |-> ToRelative(to[1])]

\* The line logged for input i: to[i] || to[0].
ReportLine(i) ==
  [src |-> ToRelative(from[i]),
   dst |-> ToRelative(IF i <= Len(to) THEN to[i] ELSE to[1])]

----------------------------------------------------------------------------
(* make: the call.                                                         *)

\* make(opt) is entered by caller c: resolve the mapping, create the dirs.
BeginPass(c) ==
  /\ caller' = c
  /\ active' = active + 1
  /\ passes' = passes + 1
  /\ prevFrom' = from
  /\ from' = ResolveFrom
  /\ to' = ResolveTo(ResolveFrom)
  /\ dirs' = MkDirs(ResolveTo(ResolveFrom))
  /\ idx' = 1
  /\ reads' = <<>>
  /\ written' = <<>>
  /\ logged' = <<>>
  /\ outBefore' = outfs
  /\ outcome' = "none"
  /\ err' = NoErr
  /\ pc' = IF ~DestIsFile /\ Len(ResolveFrom) = 0 THEN "report" ELSE "process"
  /\ UNCHANGED <<opt, method, disk, outfs, ready, changes>>

\* An error handler that closes the watcher and drops its events.
ThrowAndUnsubscribe(e) ==
  /\ pc' = "idle"
  /\ active' = active - 1
  /\ outcome' = "threw"
  /\ err' = e
  /\ IF caller = "event"
       THEN proc' \in {"running", "crashed"}
       ELSE proc' = "crashed"
  /\ watcher' = "none"
  /\ queue' = 0
  /\ UNCHANGED <<opt, method, disk, dirs, caller, from, to, prevFrom, logged,
                 outBefore, ready, passes, delivered, changes>>

\* An error e leaves make: the frame is gone and e goes to the caller, which
\* does not catch it.  From cli() and from watch() it leaves the program
\* before the watcher is created; from the 'all' listener it is an uncaught
\* exception of the host, which ends the process unless the host handles it.
Throw(e) ==
  /\ pc' = "idle"
  /\ active' = active - 1
  /\ outcome' = "threw"
  /\ err' = e
  /\ IF caller = "event"
       THEN proc' \in {"running", "crashed"}
       ELSE proc' = "crashed"
  /\ UNCHANGED <<opt, method, disk, dirs, caller, from, to, prevFrom, logged,
                 outBefore, watcher, ready, queue, passes, delivered, changes>>

\* A toFile that rewrites the output after every input it has parsed.
ParseNextEager ==
  /\ pc = "process" /\ DestIsFile /\ idx <= Len(from)
  /\ reads' = Append(reads, Cat(from[idx]))
  /\ IF ParseThrows(from[idx])
       THEN /\ Throw(ParseError(from[idx]))
            /\ UNCHANGED <<idx, outfs, written>>
       ELSE /\ idx' = idx + 1
            /\ outfs' = [outfs EXCEPT ![to[1]] =
                 Encapsulate(Join([i \in DOMAIN reads' |-> Compiled(reads'[i])]))]
            /\ UNCHANGED <<opt, method, proc, disk, dirs, pc, caller,
                           active, from, to, prevFrom, written, logged,
                           outBefore, outcome, err, watcher, ready, queue,
                           passes, delivered, changes>>

\* toFile: one iteration of from.map(parse).
ParseNext ==
  /\ pc = "process" /\ DestIsFile /\ idx <= Len(from)
  /\ reads' = Append(reads, Cat(from[idx]))
  /\ IF ParseThrows(from[idx])
       THEN /\ Throw(ParseError(from[idx]))
            /\ UNCHANGED <<idx, outfs, written>>
       ELSE /\ idx' = idx + 1
            /\ UNCHANGED <<opt, method, proc, disk, outfs, dirs, pc, caller,
                           active, from, to, prevFrom, written, logged,
                           outBefore, outcome, err, watcher, ready, queue,
                           passes, delivered, changes>>

\* A toFile that encapsulates every compiled text before joining them.
WriteJoinedEach ==
  /\ pc = "process" /\ DestIsFile /\ idx > Len(from)
  /\ outfs' = [outfs EXCEPT
       ![to[1]] = Join([i \in DOMAIN reads |-> Encapsulate(Compiled(reads[i]))])]
  /\ written' = Append(written, to[1])
  /\ pc' = "report"
  /\ UNCHANGED <<opt, method, proc, disk, dirs, caller, active, from, to,
                 prevFrom, idx, reads, logged, outBefore, outcome, err,
                 watcher, ready, queue, passes, delivered, changes>>

\* A toFile that writes nothing when there is no input.
WriteJoinedUnlessEmpty ==
  /\ pc = "process" /\ DestIsFile /\ idx > Len(from)
  /\ IF Len(from) = 0
       THEN UNCHANGED <<outfs, written>>
       ELSE /\ outfs' = [outfs EXCEPT ![to[1]] =
                 Encapsulate(Join([i \in DOMAIN reads |-> Compiled(reads[i])]))]
            /\ written' = Append(written, to[1])
  /\ pc' = "report"
  /\ UNCHANGED <<opt, method, proc, disk, dirs, caller, active, from, to,
                 prevFrom, idx, reads, logged, outBefore, outcome, err,
                 watcher, ready, queue, passes, delivered, changes>>

\* toFile: join the compiled texts, encapsulate the whole, write to to[0].
WriteJoined ==
  /\ pc = "process" /\ DestIsFile /\ idx > Len(from)
  /\ outfs' = [outfs EXCEPT
       ![to[1]] = Encapsulate(Join([i \in DOMAIN reads |-> Compiled(reads[i])]))]
  /\ written' = Append(written, to[1])
  /\ pc' = "report"
  /\ UNCHANGED <<opt, method, proc, disk, dirs, caller, active, from, to,
                 prevFrom, idx, reads, logged, outBefore, outcome, err,
                 watcher, ready, queue, passes, delivered, changes>>

\* A toDir that writes every input to to[0].
ConvertNextShared ==
  /\ pc = "process" /\ ~DestIsFile /\ idx <= Len(from)
  /\ reads' = Append(reads, Cat(from[idx]))
  /\ IF ParseThrows(from[idx])
       THEN /\ Throw(ParseError(from[idx]))
            /\ UNCHANGED <<idx, outfs, written>>
       ELSE /\ outfs' = [outfs EXCEPT ![to[1]] = Encapsulate(Parse(from[idx]))]
            /\ written' = Append(written, to[1])
            /\ idx' = idx + 1
            /\ pc' = IF idx = Len(from) THEN "report" ELSE "process"
            /\ UNCHANGED <<opt, method, proc, disk, dirs, caller, active,
                           from, to, prevFrom, logged, outBefore, outcome,
                           err, watcher, ready, queue, passes, delivered,
                           changes>>

\* A toDir that catches the error of an input and goes on with the next.
ConvertNextSwallow ==
  /\ pc = "process" /\ ~DestIsFile /\ idx <= Len(from)
  /\ reads' = Append(reads, Cat(from[idx]))
  /\ IF ParseThrows(from[idx])
       THEN UNCHANGED <<outfs, written>>
       ELSE /\ outfs' = [outfs EXCEPT ![to[idx]] = Encapsulate(Parse(from[idx]))]
            /\ written' = Append(written, to[idx])
  /\ idx' = idx + 1
  /\ pc' = IF idx = Len(from) THEN "report" ELSE "process"
  /\ UNCHANGED <<opt, method, proc, disk, dirs, caller, active,
                 from, to, prevFrom, logged, outBefore, outcome,
                 err, watcher, ready, queue, passes, delivered,
                 changes>>

\* toDir: one iteration: parse input i, encapsulate it, write it to to[i].
ConvertNext ==
  /\ pc = "process" /\ ~DestIsFile /\ idx <= Len(from)
  /\ reads' = Append(reads, Cat(from[idx]))
  /\ IF ParseThrows(from[idx])
       THEN /\ Throw(ParseError(from[idx]))
            /\ UNCHANGED <<idx, outfs, written>>
       ELSE /\ outfs' = [outfs EXCEPT ![to[idx]] = Encapsulate(Parse(from[idx]))]
            /\ written' = Append(written, to[idx])
            /\ idx' = idx + 1
            /\ pc' = IF idx = Len(from) THEN "report" ELSE "process"
            /\ UNCHANGED <<opt, method, proc, disk, dirs, caller, active,
                           from, to, prevFrom, logged, outBefore, outcome,
                           err, watcher, ready, queue, passes, delivered,
                           changes>>

\* What the caller does when make returns: cli() ends; watch() creates the
\* watcher and registers its two listeners; the 'all' listener returns.
Subscribe ==
  /\ watcher' = "subscribed"
  /\ proc' = proc

Return ==
  IF caller = "watch" THEN Subscribe
  ELSE /\ watcher' = watcher
       /\ proc' = IF caller = "cli" THEN "exited" ELSE proc

\* The lines logged unless --silent, one per input; then make returns.
Report ==
  /\ pc = "report"
  /\ logged' = IF opt.silent THEN <<>> ELSE [i \in DOMAIN from |-> ReportLine(i)]
  /\ pc' = "idle"
  /\ active' = active - 1
  /\ outcome' = "ok"
  /\ Return
  /\ UNCHANGED <<opt, method, disk, outfs, dirs, caller, from, to, prevFrom,
                 idx, reads, written, outBefore, err, ready, queue, passes,
                 delivered, changes>>

----------------------------------------------------------------------------
(* cli, watch and the watcher.                                             *)

\* cli(): no method flag and a source given: methods.make(opts).
CliMake ==
  /\ proc = "start" /\ method = "make"
  /\ proc' = "running"
  /\ BeginPass("cli")
  /\ UNCHANGED <<watcher, queue, delivered>>

\* methods.watch(opt): the first pass, before the watcher exists.
Watch ==
  /\ proc = "start" /\ method = "watch"
  /\ proc' = "running"
  /\ BeginPass("watch")
  /\ UNCHANGED <<watcher, queue, delivered>>

\* .on('ready', ...): logs "Watching ..." once the initial scan is over.
Ready ==
  /\ proc = "running" /\ watcher = "subscribed" /\ pc = "idle" /\ ~ready
  /\ ready' = TRUE
  /\ UNCHANGED <<opt, method, proc, disk, outfs, dirs, pc, caller, active,
                 from, to, prevFrom, idx, reads, written, logged, outBefore,
                 outcome, err, watcher, queue, passes, delivered, changes>>

\* A listener that handles all the queued events with one call of make.
DeliverCoalesced ==
  /\ proc = "running" /\ watcher = "subscribed" /\ queue > 0
  /\ pc = "idle"
  /\ queue' = 0
  /\ delivered' = delivered + queue
  /\ BeginPass("event")
  /\ UNCHANGED <<proc, watcher>>

\* A listener that can run while a call of make is suspended.
DeliverAsync ==
  /\ proc = "running" /\ watcher = "subscribed" /\ queue > 0
  /\ queue' = queue - 1
  /\ delivered' = delivered + 1
  /\ BeginPass("event")
  /\ UNCHANGED <<proc, watcher>>

\* .on('all', function() { methods.make(opt) }): one event, one call.
Deliver ==
  /\ proc = "running" /\ watcher = "subscribed" /\ queue > 0
  /\ pc = "idle"
  /\ queue' = queue - 1
  /\ delivered' = delivered + 1
  /\ BeginPass("event")
  /\ UNCHANGED <<proc, watcher>>

\* Another process creates, rewrites or deletes a file of the glob; the
\* watcher, once it exists, emits one event for it.
FsChange(p, text) ==
  /\ proc = "running" /\ changes < MaxChanges
  /\ text # disk[p]
  /\ disk' = [disk EXCEPT ![p] = text]
  /\ changes' = changes + 1
  /\ queue' = IF watcher = "subscribed" THEN queue + 1 ELSE queue
  /\ UNCHANGED <<opt, method, proc, outfs, dirs, pc, caller, active, from, to,
                 prevFrom, idx, reads, written, logged, outBefore, outcome,
                 err, watcher, ready, passes, delivered>>

----------------------------------------------------------------------------

\* The state when cli() has built the options hash and init(opt) has set
\* opt.flow, which no later code changes: any flow, any flags, either method,
\* and any content of the source files.
Init ==
  /\ opt \in [flow : Flows, modular : BOOLEAN, silent : BOOLEAN]
  /\ method \in {"make", "watch"}
  /\ proc = "start"
  /\ disk \in {d \in [InPaths -> SrcTexts \cup {NoFile}] :
                 /\ d[PathC] = <<"b">>
                 /\ (opt.flow[1] = "f" => d[PathB] = NoFile)}
  /\ outfs = [p \in OutPaths |-> NoFile]
  /\ dirs = {}
  /\ pc = "idle"
  /\ caller = "cli"
  /\ active = 0
  /\ from = <<>>
  /\ to = <<>>
  /\ prevFrom = <<>>
  /\ idx = 1
  /\ reads = <<>>
  /\ written = <<>>
  /\ logged = <<>>
  /\ outBefore = [p \in OutPaths |-> NoFile]
  /\ outcome = "none"
  /\ err = NoErr
  /\ watcher = "none"
  /\ ready = FALSE
  /\ queue = 0
  /\ passes = 0
  /\ delivered = 0
  /\ changes = 0

Next ==
  \/ CliMake
  \/ Watch
  \/ ParseNext
  \/ WriteJoined
  \/ ConvertNext
  \/ Report
  \/ Ready
  \/ Deliver
  \/ \E p \in GlobFiles : \E text \in SrcTexts \cup {NoFile} : FsChange(p, text)

Spec == Init /\ [][Next]_vars

----------------------------------------------------------------------------
(* Properties.                                                             *)

Mirrored == ~DestIsFile

\* A pass has ended, well or not.
PassEnded == passes > 0 /\ pc = "idle"

\* The compiled text of the i-th text read in this pass.
CompiledAt(i) == <<"riot.tag2(">> \o
                 (IF reads[i][1] = BOM THEN Tail(reads[i]) ELSE reads[i]) \o <<")">>

\* The compiled texts read in this pass, joined by one newline each (a pass
\* has at most two inputs).
JoinedCompiled ==
  IF Len(reads) = 0 THEN <<>>
  ELSE IF Len(reads) = 1 THEN CompiledAt(1)
  ELSE CompiledAt(1) \o <<NL>> \o CompiledAt(2)

\* A text with the shim around it once when --modular, and as it is otherwise.
Wrapped(text) == IF opt.modular THEN ShimHead \o text \o ShimTail ELSE text

\* Every output path but those of the set S is as it was when the pass began.
OthersUntouched(S) == \A p \in OutPaths \ S : outfs[p] = outBefore[p]

\* C1: in watch mode one pass runs and completes before the watcher is
\* subscribed and before the ready log, and afterwards every delivered change
\* event starts exactly one more pass: 1 + delivered passes have begun.
C1_OnePassPerEvent ==
  /\ [](method = "watch" =>
          /\ (watcher = "none" => delivered = 0 /\ queue = 0 /\ passes <= 1 /\ ~ready)
          /\ (watcher = "subscribed" => passes = 1 + delivered)
          /\ (ready => watcher = "subscribed"))
  /\ [][watcher = "none" /\ watcher' = "subscribed" =>
          /\ caller = "watch" /\ passes = 1 /\ passes' = 1
          /\ outcome' = "ok" /\ pc' = "idle" /\ active' = 0]_vars
  /\ [][delivered' # delivered =>
          delivered' = delivered + 1 /\ passes' = passes + 1 /\ queue' = queue - 1]_vars

C1_Witness ==
  method = "watch" /\ ready /\ delivered = 2 /\ passes = 3 /\ outcome = "ok"

\* C2: a pass to a single file that completes has written exactly one file,
\* the shared output path, and its content is the compiled texts of all the
\* inputs, in input order, joined by one newline, with the shim applied once
\* to the whole; while it runs and when it aborts it writes no other path.
C2_SingleFileOutput ==
  (DestIsFile /\ passes > 0) =>
    /\ to = <<ToFile>>
    /\ Range(written) \subseteq {ToFile}
    /\ Len(written) <= 1
    /\ OthersUntouched({ToFile})
    /\ outcome = "ok" =>
         /\ written = <<ToFile>>
         /\ Len(reads) = Len(from)
         /\ outfs[ToFile] = Wrapped(JoinedCompiled)

C2_Witness ==
  DestIsFile /\ outcome = "ok" /\ Len(from) = 2 /\ opt.modular

\* C3: with a mirrored destination there are as many output paths as input
\* paths, and a pass that completes has written, for every input i, the
\* compiled text of input i with its own shim to output path i, and nothing
\* to any other path.
C3_MirroredOutputs ==
  Mirrored =>
    /\ Len(to) = Len(from)
    /\ \A i \in DOMAIN to :
         to[i] = [dir |-> ToDir \o SubSeq(from[i].dir, Len(FromDir) + 1, Len(from[i].dir)),
                  name |-> from[i].name, ext |-> "js"]
    /\ outcome = "ok" =>
         /\ written = to
         /\ Len(reads) = Len(from)
         /\ \A i \in DOMAIN to : outfs[to[i]] = Wrapped(CompiledAt(i))
         /\ OthersUntouched(Range(to))

C3_Witness ==
  Mirrored /\ outcome = "ok" /\ Len(from) = 2 /\ opt.modular

\* C4: when the compiler throws on an input the pass ends at that input: the
\* error that leaves make is the compiler's, no later input is read, the
\* input is read once, nothing is reported, and what the pass wrote for the
\* earlier inputs stays on disk.
C4_CompileErrorAborts ==
  \A k \in DOMAIN reads :
    (reads[k] # NoFile /\ CompileThrows(StripBOM(reads[k]))) =>
      /\ outcome = "threw"
      /\ k = Len(reads) /\ idx = k
      /\ err = CompileError(StripBOM(reads[k]))
      /\ pc = "idle" /\ active = 0
      /\ logged = <<>>
      /\ (caller # "event" => proc = "crashed")
      /\ Mirrored =>
           /\ written = SubSeq(to, 1, k - 1)
           /\ \A i \in 1..(k - 1) : outfs[to[i]] = Wrapped(CompiledAt(i))
           /\ OthersUntouched({to[i] : i \in 1..(k - 1)})
      /\ DestIsFile => written = <<>> /\ outfs = outBefore

C4_Witness ==
  /\ Mirrored /\ outcome = "threw" /\ Len(reads) = 2 /\ Len(from) = 2
  /\ err = CompileError(<<"!">>)
  /\ written = <<to[1]>> /\ outfs[to[1]] # outBefore[to[1]]

\* C5, as claimed: a failed pass of a change event leaves the process and the
\* subscription alive.
C5_FailureKeepsWatching ==
  (caller = "event" /\ outcome = "threw") =>
    proc = "running" /\ watcher = "subscribed"

\* C5, amended: the error of a failed pass of a change event leaves the
\* listener uncaught, so the process may end there; the failure itself
\* neither closes the watcher nor drops a queued event, and when the process
\* survives it the next queued event starts a pass.
C5_FailureUncaught ==
  /\ (caller = "event" /\ outcome = "threw") =>
       /\ err # NoErr
       /\ proc \in {"running", "crashed"}
       /\ watcher = "subscribed"
       /\ passes = 1 + delivered
       /\ (proc = "running" /\ queue > 0) => ENABLED Deliver

C5_Witness ==
  caller = "event" /\ outcome = "threw" /\ proc = "running" /\ queue > 0

\* C6: at most one call of make is in progress, and a change event starts
\* its pass only when the pass before it has ended, however many events are
\* queued.
C6_PassesNeverOverlap ==
  /\ [](active <= 1 /\ (active = 0 <=> pc = "idle"))
  /\ [][passes' # passes =>
          /\ active = 0 /\ pc = "idle"
          /\ (passes > 0 => outcome \in {"ok", "threw"})]_vars
  /\ [](outcome = "ok" =>
          /\ Len(reads) = Len(from)
          /\ Len(written) = (IF DestIsFile THEN 1 ELSE Len(from))
          /\ Len(logged) = (IF opt.silent THEN 0 ELSE Len(from)))

C6_Witness ==
  caller = "event" /\ pc = "process" /\ idx = 2 /\ queue = 2

\* C7, as claimed: a pass over a tree with no matching file completes and
\* produces no output file, whatever the destination kind.
C7_EmptyTreeNoOutput ==
  (~SourceIsFile /\ PassEnded /\ from = <<>>) =>
    outcome = "ok" /\ written = <<>> /\ outfs = outBefore

\* C7, amended: a pass over a tree with no matching file completes; it
\* writes no file when the destination is mirrored, and writes the shared
\* output file, holding the encapsulated empty text, when it is a single file.
C7_EmptyTreeOutput ==
  (~SourceIsFile /\ PassEnded /\ from = <<>>) =>
    /\ outcome = "ok"
    /\ Mirrored => written = <<>> /\ outfs = outBefore
    /\ DestIsFile =>
         /\ written = <<ToFile>>
         /\ outfs[ToFile] = (IF opt.modular THEN ShimHead \o ShimTail ELSE <<>>)
         /\ OthersUntouched({ToFile})

C7_Witness ==
  ~SourceIsFile /\ DestIsFile /\ PassEnded /\ from = <<>> /\ outcome = "ok"

\* C8: a pass that completes and is not silenced has logged one line per
\* input, in input order, with the input's own output path when mirrored and
\* the shared path otherwise; a silenced pass logs nothing; lines are logged
\* only after all the writes, so a pass that aborts logs none.
C8_ReportLines ==
  /\ (outcome = "ok" /\ ~opt.silent) =>
       /\ Len(logged) = Len(from)
       /\ \A i \in DOMAIN from :
            logged[i] = [src |-> ToRelative(from[i]),
                         dst |-> ToRelative(IF DestIsFile THEN ToFile ELSE to[i])]
  /\ opt.silent => logged = <<>>
  /\ outcome # "ok" => logged = <<>>
  /\ logged # <<>> =>
       Len(written) = (IF DestIsFile THEN 1 ELSE Len(from))

C8_Witness ==
  outcome = "ok" /\ ~opt.silent /\ Mirrored /\ Len(from) = 2 /\ Len(logged) = 2

\* C9: every pass resolves its inputs and outputs anew from the files that
\* exist when it begins: with a tree source they are exactly the matching
\* files then on disk, so a file created since the pass before is an input
\* (and is written when the pass completes) and a deleted one is not.
C9_FreshResolution ==
  /\ [][passes' # passes =>
          /\ SourceIsFile => from' = <<PathA>>
          /\ ~SourceIsFile =>
               /\ \A p \in InPaths :
                    p \in Range(from') <=> (disk[p] # NoFile /\ p.ext = "tag")
               /\ Cardinality(Range(from')) = Len(from')
          /\ Len(to') = (IF DestIsFile THEN 1 ELSE Len(from'))]_vars
  /\ [](outcome = "ok" =>
          /\ Len(reads) = Len(from)
          /\ Mirrored => \A i \in DOMAIN from : to[i] \in Range(written))

C9_Witness ==
  /\ ~SourceIsFile /\ Mirrored /\ passes = 2 /\ outcome = "ok"
  /\ prevFrom = <<PathA>> /\ from = <<PathB>>
  /\ outfs[RemapOne(PathB, ToDir, FromDir)] # NoFile

\* C10: with a single file destination the output is written only after
\* every input was read and compiled, so a pass that aborts leaves every
\* output as it was before the pass; with a mirrored destination the outputs
\* are written one input at a time.
C10_SingleFileAllOrNothing ==
  /\ DestIsFile =>
       /\ (pc = "process" \/ outcome = "threw") => written = <<>> /\ outfs = outBefore
       /\ written # <<>> =>
            /\ Len(reads) = Len(from)
            /\ \A i \in DOMAIN reads :
                 reads[i] # NoFile /\ ~CompileThrows(StripBOM(reads[i]))
  /\ Mirrored =>
       Len(written) = Len(reads) - (IF outcome = "threw" THEN 1 ELSE 0)

C10_Witness ==
  /\ DestIsFile /\ outcome = "threw" /\ Len(reads) = 2
  /\ outBefore[ToFile] # NoFile /\ outfs[ToFile] = outBefore[ToFile]

====
